---- MODULE Spec2Model ----
(***************************************************************************)
(* Model of gildas-ai: the landmark crop geometry (Landmarks.Center,       *)
(* square, insideOf), the face Extractor pipeline, the LocalCache of the   *)
(* inception command and the sqlite prediction Store.                      *)
(***************************************************************************)
EXTENDS Integers, Sequences, FiniteSets, TLC

VARIABLES
    gCropped,   \* Center: bounds of the cropped image
    gFull,      \* Center: bounds of the full image
    gCoords,    \* Center: Landmarks.Coords, in halves
    gRect,      \* Center: bounds of the image Center returns
    gPc,        \* Center: "input" before the call, "done" after it
    ePc,        \* Extractor: position of the running call
    eOp,        \* Extractor: "Extract" or "ExtractLandmarks"
    eImg,       \* Extractor: bounds of the image passed in
    eAll,       \* Extractor: allDetections, the result of the Detector
    eDets,      \* Extractor: detections, the result of Above
    eIdx,       \* Extractor: index in detections of the loop
    eCrop2,     \* Extract: bounds of cropped2, the result of Center
    eImages,    \* Extractor: bounds of the images collected (images / crops)
    eSecond,    \* Extractor: descrs (Extract) or ret (ExtractLandmarks)
    eRet,       \* Extractor: the values returned
    eCalls,     \* Extractor: the collaborator calls made, in order
    cDir,       \* LocalCache: whether the directory CacheDir exists
    cFile,      \* LocalCache: the content of each cache file
    cPc,        \* LocalCache: position of each caller of Inception
    cKey,       \* LocalCache: the file argument of each running call
    cPreds,     \* LocalCache: preds, the result of the inception function
    cTrace,     \* LocalCache: what each running call did so far
    cLog,       \* LocalCache: the calls that returned, in order of return
    sRows,      \* Store: the rows of table predictions, in insertion order
    sTx,        \* Store: the rows inserted by the open transaction
    sPc,        \* Store: position of the running StorePrediction call
    sId,        \* Store: the id argument
    sItem,      \* Store: the item argument
    sIdx,       \* Store: index in item.Predictions of the loop
    sErr,       \* Store: the error returned
    sBefore,    \* Store: the rows of the table when the call began
    sCalls,     \* Store: number of calls made
    qGot,       \* Store: what the last GetPrediction call returned
    qSearch,    \* Store: the arguments of the last SearchPrediction call
    qPages,     \* Store: the pages of the running pagination, in order
    dA,         \* DistanceTo: the receiver d
    dB,         \* DistanceTo: the argument d2
    dRet,       \* DistanceTo: the values returned
    dPc,        \* DistanceTo: "input" before the call, "done" after it
    fPc,        \* inspectFolder: position of the call
    fCache,     \* inspectFolder: whether cache is not nil
    fClassifier, \* inspectFolder: whether classifier is not nil
    fFiles,     \* inspectFolder: files, the result of filepath.Glob
    fIdx,       \* inspectFolder: index in files of the loop
    fObjects,   \* inspectFolder: objects, the index from label to files
    fLog,       \* inspectFolder: what happened to each file, in order
    fRet        \* inspectFolder: the values returned

geoVars == <<gCropped, gFull, gCoords, gRect, gPc>>
extVars == <<ePc, eOp, eImg, eAll, eDets, eIdx, eCrop2, eImages, eSecond, eRet, eCalls>>
cacheVars == <<cDir, cFile, cPc, cKey, cPreds, cTrace, cLog>>
storeVars == <<sRows, sTx, sPc, sId, sItem, sIdx, sErr, sBefore, sCalls>>
queryVars == <<qGot, qSearch, qPages>>
distVars == <<dA, dB, dRet, dPc>>
folderVars == <<fPc, fCache, fClassifier, fFiles, fIdx, fObjects, fLog, fRet>>

vars == <<geoVars, extVars, cacheVars, storeVars, queryVars, distVars, folderVars>>

\* what the steps of one component leave alone
geoOthers == <<extVars, cacheVars, storeVars, queryVars, distVars, folderVars>>
extOthers == <<geoVars, cacheVars, storeVars, queryVars, distVars, folderVars>>
cacheOthers == <<geoVars, extVars, storeVars, queryVars, distVars, folderVars>>
storeOthers == <<geoVars, extVars, cacheVars, queryVars, distVars, folderVars>>
folderOthers == <<geoVars, extVars, cacheVars, storeVars, queryVars, distVars>>
distOthers == <<geoVars, extVars, cacheVars, storeVars, queryVars, folderVars>>
queryOthers == <<geoVars, extVars, cacheVars, storeVars, distVars, folderVars>>

----------------------------------------------------------------------------
(* Bounds of the model *)

\* largest coordinate of an image corner in the geometry specification
GeoMaxSide == 3
\* largest number of floats in Landmarks.Coords
MaxCoords == 4

----------------------------------------------------------------------------
(* image.Rectangle and image.Point *)

Rect(x0, y0, x1, y1) == [minX |-> x0, minY |-> y0, maxX |-> x1, maxY |-> y1]
Point(x, y) == [X |-> x, Y |-> y]
Dx(r) == r.maxX - r.minX
Dy(r) == r.maxY - r.minY

NoRect == Rect(0, 0, 0, 0)

\* the geometry specification is not running
GeoIdle ==
    /\ gFull = NoRect
    /\ gCropped = NoRect
    /\ gCoords = <<>>
    /\ gRect = NoRect
    /\ gPc = "idle"

\* Go's integer division and float-to-int conversion truncate toward zero
TruncDiv(a, b) == IF a >= 0 THEN a \div b ELSE -((-a) \div b)

\* Landmarks.Coords holds fractions of the image size; the model writes them
\* in halves: 1 is 0.5
CoordVals == {0, 1, 2}

\* int(w*l.Coords[i]) truncates the product
PointsOnImage(coords, img) ==
    [k \in 1..(Len(coords) \div 2) |->
        Point(img.minX + TruncDiv(Dx(img) * coords[2 * k - 1], 2),
              img.minY + TruncDiv(Dy(img) * coords[2 * k], 2))]

\* the loop of Center over the points, started from the inverted bounds
RECURSIVE BoundingBox(_, _, _)
BoundingBox(points, i, acc) ==
    IF i > Len(points) THEN acc
    ELSE LET p == points[i]
             a1 == IF p.X < acc.minX THEN [acc EXCEPT !.minX = p.X] ELSE acc
             a2 == IF p.Y < a1.minY THEN [a1 EXCEPT !.minY = p.Y] ELSE a1
             a3 == IF p.X > a2.maxX THEN [a2 EXCEPT !.maxX = p.X] ELSE a2
             a4 == IF p.Y > a3.maxY THEN [a3 EXCEPT !.maxY = p.Y] ELSE a3
         IN BoundingBox(points, i + 1, a4)

square(rect) ==
    LET width == Dx(rect)
        height == Dy(rect)
    IN IF height > width
       THEN LET left == TruncDiv(height - width, 2)
                right == height - width - left
            IN Rect(rect.minX - left, rect.minY, rect.maxX + right, rect.maxY)
       ELSE IF width > height
       THEN LET top == TruncDiv(width - height, 2)
                bottom == width - height - top
            IN Rect(rect.minX, rect.minY - top, rect.maxX, rect.maxY + bottom)
       ELSE rect

insideOf(rect, bounds) ==
    LET r1 == IF bounds.minX > rect.minX
              THEN [rect EXCEPT !.maxX = rect.maxX + (bounds.minX - rect.minX),
                                !.minX = bounds.minX]
              ELSE rect
        r2 == IF bounds.minY > r1.minY
              THEN [r1 EXCEPT !.maxY = r1.maxY + (bounds.minY - r1.minY),
                              !.minY = bounds.minY]
              ELSE r1
        r3 == IF r2.maxX > bounds.maxX
              THEN [r2 EXCEPT !.minX = r2.minX - (r2.maxX - bounds.maxX),
                              !.maxX = bounds.maxX]
              ELSE r2
        r4 == IF r3.maxY > bounds.maxY
              THEN [r3 EXCEPT !.minY = r3.minY - (r3.maxY - bounds.maxY),
                              !.maxY = bounds.maxY]
              ELSE r3
    IN r4

\* the rectangle of the image that Landmarks.Center returns
CenterRect(coords, cropped, full) ==
    LET start == Rect(full.maxX, full.maxY, full.minX, full.minY)
        rect == BoundingBox(PointsOnImage(coords, cropped), 1, start)
    IN insideOf(square(rect), full)

----------------------------------------------------------------------------
(* The Extractor: Extract and ExtractLandmarks, one step per collaborator call *)

\* scores are written in tenths: 6 is 0.6
ExtractThreshold == 6
LandmarksThreshold == 4
MinFaceSize == 45
\* largest number of detections the Detector returns
MaxDets == 2

NilErr == [kind |-> "nil", cause |-> "nil"]
Wrap(cause, message) == [kind |-> message, cause |-> cause]
CollabErrs == {"failed"}

Scores == {3, 4, 6, 7}
DetBoxes == {Rect(0, 0, 44, 60), Rect(10, 10, 70, 54), Rect(20, 20, 65, 65)}
Detections == [Box : DetBoxes, Score : Scores]
DetSeqs == UNION {[1..n -> Detections] : n \in 0..MaxDets}
ExtImages == {Rect(0, 0, 100, 100), Rect(0, 0, 60, 40)}
\* what the Landmark collaborator may return
LandmarkOutputs == {<<>>, <<1, 1, 1, 1>>, <<0, 0, 2, 2>>, <<0, 0, 2, 1>>}
DescriptorOutputs == {<<1>>, <<2>>}

RECURSIVE AboveFrom(_, _, _)
AboveFrom(allDetections, threshold, i) ==
    IF i > Len(allDetections) THEN <<>>
    ELSE IF allDetections[i].Score < threshold
         THEN AboveFrom(allDetections, threshold, i + 1)
         ELSE <<allDetections[i]>> \o AboveFrom(allDetections, threshold, i + 1)

\* mutant: a detection whose score equals the threshold is dropped
AboveStrict(allDetections, threshold) ==
    SelectSeq(allDetections, LAMBDA d : d.Score > threshold)

Above(allDetections, threshold) == AboveFrom(allDetections, threshold, 1)

\* mutant: the two thresholds exchanged
ThresholdSwapped(op) == IF op = "Extract" THEN LandmarksThreshold ELSE ExtractThreshold

\* the threshold each entry point passes to Above
Threshold(op) == IF op = "Extract" THEN ExtractThreshold ELSE LandmarksThreshold

\* mutant: a face is too small only when both sides are
TooSmallBoth(d) == Dx(d.Box) < MinFaceSize /\ Dy(d.Box) < MinFaceSize

TooSmall(d) == Dx(d.Box) < MinFaceSize \/ Dy(d.Box) < MinFaceSize

NoRet == [images |-> <<>>, second |-> <<>>, err |-> NilErr]
NoDet == [Box |-> NoRect, Score |-> 0]

ExtIdle ==
    /\ ePc = "idle"
    /\ eOp = "none"
    /\ eImg = NoRect
    /\ eAll = <<>>
    /\ eDets = <<>>
    /\ eIdx = 0
    /\ eCrop2 = NoRect
    /\ eImages = <<>>
    /\ eSecond = <<>>
    /\ eRet = NoRet
    /\ eCalls = <<>>

\* a caller enters Extract or ExtractLandmarks with an image
ExtCall(op, img) ==
    /\ ePc = "idle"
    /\ ePc' = "detect"
    /\ eOp' = op
    /\ eImg' = img
    /\ UNCHANGED <<eAll, eDets, eIdx, eCrop2, eImages, eSecond, eRet, eCalls>>
    /\ UNCHANGED extOthers

\* mutant: the error is returned with what was collected so far
ReturnErrPartial(err) ==
    /\ ePc' = "done"
    /\ eRet' = [images |-> eImages, second |-> eSecond, err |-> err]

\* return nil, nil, err
ReturnErr(err) ==
    /\ ePc' = "done"
    /\ eRet' = [images |-> <<>>, second |-> <<>>, err |-> err]

\* e.Detector.Detect fails
DetectorFails(cause) ==
    /\ ePc = "detect"
    /\ eCalls' = Append(eCalls, [who |-> "Detector", det |-> NoDet, err |-> cause])
    /\ ReturnErr(Wrap(cause, "error detecting faces"))
    /\ UNCHANGED <<eOp, eImg, eAll, eDets, eIdx, eCrop2, eImages, eSecond>>
    /\ UNCHANGED extOthers

\* e.Detector.Detect returns allDetections; Above filters them
DetectorDetects(allDetections) ==
    /\ ePc = "detect"
    /\ eCalls' = Append(eCalls, [who |-> "Detector", det |-> NoDet, err |-> "nil"])
    /\ eAll' = allDetections
    /\ LET detections == Above(allDetections, Threshold(eOp))
       IN /\ eDets' = detections
          /\ IF eOp = "ExtractLandmarks" /\ Len(detections) = 0
             THEN /\ ReturnErr(Wrap("nil", "no face detected"))
                  /\ UNCHANGED eIdx
             ELSE /\ ePc' = "loop"
                  /\ eIdx' = 1
                  /\ UNCHANGED eRet
    /\ UNCHANGED <<eOp, eImg, eCrop2, eImages, eSecond>>
    /\ UNCHANGED extOthers

\* the range loop is over: return images, descrs, nil
LoopReturn ==
    /\ ePc = "loop"
    /\ eIdx > Len(eDets)
    /\ ePc' = "done"
    /\ eRet' = [images |-> eImages, second |-> eSecond, err |-> NilErr]
    /\ UNCHANGED <<eOp, eImg, eAll, eDets, eIdx, eCrop2, eImages, eSecond, eCalls>>
    /\ UNCHANGED extOthers

\* mutant: break in place of continue, so that a face that is too small
\* ends the loop
LoopSkipBreaks ==
    /\ ePc = "loop"
    /\ eIdx <= Len(eDets)
    /\ TooSmall(eDets[eIdx])
    /\ eIdx' = Len(eDets) + 1
    /\ UNCHANGED <<ePc, eOp, eImg, eAll, eDets, eCrop2, eImages, eSecond, eRet, eCalls>>
    /\ UNCHANGED extOthers

\* continue: the face is too small
LoopSkip ==
    /\ ePc = "loop"
    /\ eIdx <= Len(eDets)
    /\ TooSmall(eDets[eIdx])
    /\ eIdx' = eIdx + 1
    /\ UNCHANGED <<ePc, eOp, eImg, eAll, eDets, eCrop2, eImages, eSecond, eRet, eCalls>>
    /\ UNCHANGED extOthers

LandmarkGuard ==
    /\ ePc = "loop"
    /\ eIdx <= Len(eDets)
    /\ ~TooSmall(eDets[eIdx])

\* mutant: the error of the Landmark is dropped and the Descriptor is given
\* the first crop
LandmarkFailsGoesOn(cause) ==
    /\ LandmarkGuard
    /\ eCalls' = Append(eCalls, [who |-> "Landmark", det |-> eDets[eIdx], err |-> cause])
    /\ ePc' = "descriptor"
    /\ eCrop2' = eDets[eIdx].Box
    /\ UNCHANGED <<eOp, eImg, eAll, eDets, eIdx, eImages, eSecond, eRet>>
    /\ UNCHANGED extOthers

\* e.Landmark.Detect(cropped) fails
LandmarkFails(cause) ==
    /\ LandmarkGuard
    /\ eCalls' = Append(eCalls, [who |-> "Landmark", det |-> eDets[eIdx], err |-> cause])
    /\ ReturnErr(Wrap(cause, "error detecting landmarks"))
    /\ UNCHANGED <<eOp, eImg, eAll, eDets, eIdx, eCrop2, eImages, eSecond>>
    /\ UNCHANGED extOthers

\* image.NewRGBA(rect) in Center: a rectangle with one negative side makes the
\* pixel buffer's length negative and panics in every build; with two negative
\* sides it panics in the builds that check the sides and not in the others
CenterMayPanic(rect) == Dx(rect) < 0 \/ Dy(rect) < 0
CenterMayReturn(rect) == (Dx(rect) >= 0 /\ Dy(rect) >= 0) \/ (Dx(rect) < 0 /\ Dy(rect) < 0)

\* e.Landmark.Detect(cropped) returns landmarks
LandmarkDetects(coords) ==
    /\ LandmarkGuard
    /\ eCalls' = Append(eCalls, [who |-> "Landmark", det |-> eDets[eIdx], err |-> "nil"])
    /\ IF eOp = "Extract"
       THEN LET rect == CenterRect(coords, eDets[eIdx].Box, eImg)
            IN \/ /\ CenterMayReturn(rect)
                  /\ ePc' = "descriptor"
                  /\ eCrop2' = rect
                  /\ UNCHANGED <<eIdx, eImages, eSecond>>
               \/ /\ CenterMayPanic(rect)
                  /\ ePc' = "panic"
                  /\ UNCHANGED <<eIdx, eCrop2, eImages, eSecond>>
       ELSE /\ eSecond' = Append(eSecond, PointsOnImage(coords, eDets[eIdx].Box))
            /\ eImages' = Append(eImages, eDets[eIdx].Box)
            /\ eIdx' = eIdx + 1
            /\ UNCHANGED <<ePc, eCrop2>>
    /\ UNCHANGED <<eOp, eImg, eAll, eDets, eRet>>
    /\ UNCHANGED extOthers

\* e.Descriptor.Compute(cropped2) fails
DescriptorFails(cause) ==
    /\ ePc = "descriptor"
    /\ eCalls' = Append(eCalls, [who |-> "Descriptor", det |-> eDets[eIdx], err |-> cause])
    /\ ReturnErr(Wrap(cause, "error computing descriptors"))
    /\ UNCHANGED <<eOp, eImg, eAll, eDets, eIdx, eCrop2, eImages, eSecond>>
    /\ UNCHANGED extOthers

\* e.Descriptor.Compute(cropped2) returns descriptors
DescriptorComputes(descriptors) ==
    /\ ePc = "descriptor"
    /\ eCalls' = Append(eCalls, [who |-> "Descriptor", det |-> eDets[eIdx], err |-> "nil"])
    /\ eImages' = Append(eImages, eCrop2)
    /\ eSecond' = Append(eSecond, descriptors)
    /\ eIdx' = eIdx + 1
    /\ ePc' = "loop"
    /\ UNCHANGED <<eOp, eImg, eAll, eDets, eCrop2, eRet>>
    /\ UNCHANGED extOthers

----------------------------------------------------------------------------
(* LocalCache: Inception, readCache and saveCache, one step per file-system *)
(* call, for callers that may run concurrently                            *)

\* largest number of Inception calls in a behaviour
MaxCalls == 3
Procs == {"p1", "p2"}
Files == {"a.jpg", "b.jpg"}

\* cacheName: the SHA-1 of the file name in hexadecimal, under CacheDir; two
\* names of the model have different hashes
cacheName(file) == IF file = "a.jpg" THEN "0fa3.json" ELSE "9c41.json"
CacheNames == {cacheName(f) : f \in Files}

\* "bad" is a label holding a byte that is not valid UTF-8 and "rep" the same
\* label with that byte replaced by U+FFFD
Labels == {"cat", "bad"}
\* the lists the inception function may return
LabelLists == {<<>>, <<"cat">>, <<"bad">>}
\* encoding/json coerces strings to valid UTF-8, writing and reading
Coerce(label) == IF label = "bad" THEN "rep" ELSE label
CoerceAll(list) == [i \in 1..Len(list) |-> Coerce(list[i])]

Absent == [kind |-> "absent", list |-> <<>>]
\* a file that is no JSON list of strings (an empty file among them)
Garbage == [kind |-> "garbage", list |-> <<>>]
Json(list) == [kind |-> "json", list |-> list]
Marshal(preds) == Json(CoerceAll(preds))
FileContents == {Absent, Garbage} \cup {Marshal(l) : l \in LabelLists}

\* mutant: the test of the read error inverted, so that no read is a hit
readCacheNever(content) == [preds |-> <<>>, ok |-> FALSE]

\* mutant: the list decoded into another variable than the one returned
readCacheDropsList(content) == [preds |-> <<>>, ok |-> content.kind = "json"]

\* mutant: the error of json.Unmarshal is not tested, so that a file that
\* is no list is a hit with what was decoded
readCacheAnyFile(content) ==
    IF content.kind = "absent"
    THEN [preds |-> <<>>, ok |-> FALSE]
    ELSE [preds |-> CoerceAll(content.list), ok |-> TRUE]

readCache(content) ==
    IF content.kind = "json"
    THEN [preds |-> CoerceAll(content.list), ok |-> TRUE]
    ELSE [preds |-> <<>>, ok |-> FALSE]

ComputeErrs == {"inception failed"}
InceptionErr(cause) == [kind |-> cause, cause |-> "nil"]

NoTrace == [computed |-> FALSE, writes |-> 0, mkdirs |-> 0, before |-> Absent]

CacheIdle ==
    /\ cDir = FALSE
    /\ cFile = [n \in CacheNames |-> Absent]
    /\ cPc = [p \in Procs |-> "idle"]
    /\ cKey = [p \in Procs |-> "a.jpg"]
    /\ cPreds = [p \in Procs |-> <<>>]
    /\ cTrace = [p \in Procs |-> NoTrace]
    /\ cLog = <<>>

\* the file system a first call may find: no directory, or a directory with
\* any files
CacheInit ==
    /\ cDir \in BOOLEAN
    /\ cFile \in [CacheNames -> FileContents]
    /\ ~cDir => \A n \in CacheNames : cFile[n] = Absent
    /\ cPc = [p \in Procs |-> "idle"]
    /\ cKey = [p \in Procs |-> "a.jpg"]
    /\ cPreds = [p \in Procs |-> <<>>]
    /\ cTrace = [p \in Procs |-> NoTrace]
    /\ cLog = <<>>

Running == {p \in Procs : cPc[p] \notin {"idle", "done"}}

\* a caller enters LocalCache.Inception(file, inception)
Inception(p, file) ==
    /\ cPc[p] \in {"idle", "done"}
    /\ Len(cLog) + Cardinality(Running) < MaxCalls
    /\ cPc' = [cPc EXCEPT ![p] = "read"]
    /\ cKey' = [cKey EXCEPT ![p] = file]
    /\ cPreds' = [cPreds EXCEPT ![p] = <<>>]
    /\ cTrace' = [cTrace EXCEPT ![p] = [NoTrace EXCEPT !.before = cFile[cacheName(file)]]]
    /\ UNCHANGED <<cDir, cFile, cLog>>
    /\ UNCHANGED cacheOthers

\* Inception returns preds, err; the file-system step it returns after has
\* already been taken, so the log reads the file as it is after that step
Returns(p, preds, err, trace) ==
    /\ cPc' = [cPc EXCEPT ![p] = "done"]
    /\ cTrace' = [cTrace EXCEPT ![p] = trace]
    /\ cLog' = Append(cLog, [key |-> cKey[p], preds |-> preds, err |-> err,
                             computed |-> trace.computed, writes |-> trace.writes,
                             mkdirs |-> trace.mkdirs, before |-> trace.before,
                             after |-> cFile'[cacheName(cKey[p])]])

\* readCache(cacheFile) finds a list: return preds, nil
ReadHit(p) ==
    /\ cPc[p] = "read"
    /\ readCache(cFile[cacheName(cKey[p])]).ok
    /\ UNCHANGED <<cDir, cFile, cKey, cPreds>>
    /\ Returns(p, readCache(cFile[cacheName(cKey[p])]).preds, NilErr, cTrace[p])
    /\ UNCHANGED cacheOthers

\* mutant: a miss waits while another call of the same file computes or saves
ReadMissLocked(p) ==
    /\ cPc[p] = "read"
    /\ ~readCache(cFile[cacheName(cKey[p])]).ok
    /\ \A q \in Procs \ {p} :
          ~(cKey[q] = cKey[p] /\ cPc[q] \in {"compute", "write1", "mkdir", "write2"})
    /\ cPc' = [cPc EXCEPT ![p] = "compute"]
    /\ UNCHANGED <<cDir, cFile, cKey, cPreds, cTrace, cLog>>
    /\ UNCHANGED cacheOthers

\* readCache(cacheFile) finds no file, or one that is no list
ReadMiss(p) ==
    /\ cPc[p] = "read"
    /\ ~readCache(cFile[cacheName(cKey[p])]).ok
    /\ cPc' = [cPc EXCEPT ![p] = "compute"]
    /\ UNCHANGED <<cDir, cFile, cKey, cPreds, cTrace, cLog>>
    /\ UNCHANGED cacheOthers

\* mutant: saveCache is called before the error of inception() is tested
ComputeFailsSaved(p, cause) ==
    /\ cPc[p] = "compute"
    /\ cFile' = IF cDir THEN [cFile EXCEPT ![cacheName(cKey[p])] = Marshal(<<>>)] ELSE cFile
    /\ UNCHANGED <<cDir, cKey, cPreds>>
    /\ Returns(p, <<>>, InceptionErr(cause), [cTrace[p] EXCEPT !.computed = TRUE])
    /\ UNCHANGED cacheOthers

\* inception() fails: return nil, err
ComputeFails(p, cause) ==
    /\ cPc[p] = "compute"
    /\ UNCHANGED <<cDir, cFile, cKey, cPreds>>
    /\ Returns(p, <<>>, InceptionErr(cause), [cTrace[p] EXCEPT !.computed = TRUE])
    /\ UNCHANGED cacheOthers

\* inception() returns preds
ComputeReturns(p, preds) ==
    /\ cPc[p] = "compute"
    /\ cPreds' = [cPreds EXCEPT ![p] = preds]
    /\ cTrace' = [cTrace EXCEPT ![p].computed = TRUE]
    /\ cPc' = [cPc EXCEPT ![p] = "write1"]
    /\ UNCHANGED <<cDir, cFile, cKey, cLog>>
    /\ UNCHANGED cacheOthers

CountWrite(p) == [cTrace[p] EXCEPT !.writes = @ + 1]

\* saveCache: the first ioutil.WriteFile succeeds
WriteSucceeds(p) ==
    /\ cPc[p] = "write1"
    /\ cDir
    /\ cFile' = [cFile EXCEPT ![cacheName(cKey[p])] = Marshal(cPreds[p])]
    /\ Returns(p, cPreds[p], NilErr, CountWrite(p))
    /\ UNCHANGED <<cDir, cKey, cPreds>>
    /\ UNCHANGED cacheOthers

\* saveCache: the first ioutil.WriteFile fails, always when there is no
\* directory; a write that fails after opening the file leaves it truncated
WriteFails(p, truncated) ==
    /\ cPc[p] = "write1"
    /\ truncated => cDir
    /\ cFile' = IF truncated THEN [cFile EXCEPT ![cacheName(cKey[p])] = Garbage] ELSE cFile
    /\ cTrace' = [cTrace EXCEPT ![p] = CountWrite(p)]
    /\ cPc' = [cPc EXCEPT ![p] = "mkdir"]
    /\ UNCHANGED <<cDir, cKey, cPreds, cLog>>
    /\ UNCHANGED cacheOthers

CountMkdir(p) == [cTrace[p] EXCEPT !.mkdirs = @ + 1]

\* saveCache: os.Mkdir creates the directory
MkdirSucceeds(p) ==
    /\ cPc[p] = "mkdir"
    /\ ~cDir
    /\ cDir' = TRUE
    /\ cTrace' = [cTrace EXCEPT ![p] = CountMkdir(p)]
    /\ cPc' = [cPc EXCEPT ![p] = "write2"]
    /\ UNCHANGED <<cFile, cKey, cPreds, cLog>>
    /\ UNCHANGED cacheOthers

\* mutant: the error of os.Mkdir is not tested and the write is tried again
MkdirFailsRetries(p) ==
    /\ cPc[p] = "mkdir"
    /\ cTrace' = [cTrace EXCEPT ![p] = CountMkdir(p)]
    /\ cPc' = [cPc EXCEPT ![p] = "write2"]
    /\ UNCHANGED <<cDir, cFile, cKey, cPreds, cLog>>
    /\ UNCHANGED cacheOthers

\* saveCache: os.Mkdir fails, always when the directory exists; saveCache
\* prints the error and Inception returns preds, nil
MkdirFails(p) ==
    /\ cPc[p] = "mkdir"
    /\ UNCHANGED <<cDir, cFile, cKey, cPreds>>
    /\ Returns(p, cPreds[p], NilErr, CountMkdir(p))
    /\ UNCHANGED cacheOthers

\* saveCache: the second ioutil.WriteFile succeeds
RetrySucceeds(p) ==
    /\ cPc[p] = "write2"
    /\ cDir
    /\ cFile' = [cFile EXCEPT ![cacheName(cKey[p])] = Marshal(cPreds[p])]
    /\ Returns(p, cPreds[p], NilErr, CountWrite(p))
    /\ UNCHANGED <<cDir, cKey, cPreds>>
    /\ UNCHANGED cacheOthers

\* saveCache: the second ioutil.WriteFile fails; the error is printed
RetryFails(p, truncated) ==
    /\ cPc[p] = "write2"
    /\ truncated => cDir
    /\ cFile' = IF truncated THEN [cFile EXCEPT ![cacheName(cKey[p])] = Garbage] ELSE cFile
    /\ Returns(p, cPreds[p], NilErr, CountWrite(p))
    /\ UNCHANGED <<cDir, cKey, cPreds>>
    /\ UNCHANGED cacheOthers

\* the one call of each of the callers that run concurrently
InceptionOnce(p, file) ==
    /\ cPc[p] = "idle"
    /\ Inception(p, file)

\* the next call of a caller that calls again after each return
InceptionAgain(file) ==
    /\ Running = {}
    /\ Inception("p1", file)

----------------------------------------------------------------------------
(* The sqlite Store *)

\* largest number of predictions in an item
MaxPreds == 2
\* largest number of StorePrediction calls in a behaviour
MaxStoreCalls == 2

Ids == {"x", "y"}
Networks == {"n1"}
StoreLabels == {"cat", "dog"}
\* scores are written in tenths: 9 is 0.9
StoreScores == {5, 9}
\* "dog" comes with one score, "cat" with either
Predictions == {p \in [Network : Networks, Label : StoreLabels, Score : StoreScores] :
                   p.Label = "dog" => p.Score = 9}
PredSeqs == UNION {[1..n -> Predictions] : n \in 0..MaxPreds}
Items == [Identifier : Ids, Predictions : PredSeqs]
NoItem == [Identifier |-> "x", Predictions |-> <<>>]

StoreIdle ==
    /\ sRows = <<>>
    /\ sTx = <<>>
    /\ sPc = "idle"
    /\ sId = "x"
    /\ sItem = NoItem
    /\ sIdx = 0
    /\ sErr = "nil"
    /\ sBefore = <<>>
    /\ sCalls = 0

\* the row that the insert statement of StorePrediction writes for p
InsertRow(item, p) ==
    [id |-> item.Identifier, network |-> p.Network, label |-> p.Label, score |-> p.Score]

Triple(row) == <<row.id, row.network, row.label>>
Range(seq) == {seq[i] : i \in 1..Len(seq)}

\* mutant: the table has no primary key
NoPrimaryKey(row, rows) == FALSE

\* primary key (id, network, label) of table predictions: the rows the
\* statement sees are the committed ones and those of its own transaction
PrimaryKeyViolated(row, rows) == \E r \in Range(rows) : Triple(r) = Triple(row)

\* a caller enters StorePrediction(id, item)
StorePrediction(id, item) ==
    /\ sPc \in {"idle", "done"}
    /\ sCalls < MaxStoreCalls
    /\ sCalls' = sCalls + 1
    /\ sId' = id
    /\ sItem' = item
    /\ sBefore' = sRows
    /\ sTx' = <<>>
    /\ sIdx' = 1
    /\ sErr' = "nil"
    /\ sPc' = "begin"
    /\ UNCHANGED sRows
    /\ UNCHANGED storeOthers

\* c.Begin() succeeds
Begin ==
    /\ sPc = "begin"
    /\ sPc' = "insert"
    /\ UNCHANGED <<sRows, sTx, sId, sItem, sIdx, sErr, sBefore, sCalls>>
    /\ UNCHANGED storeOthers

\* c.Begin() fails: return err
BeginFails ==
    /\ sPc = "begin"
    /\ sErr' = "begin failed"
    /\ sPc' = "done"
    /\ UNCHANGED <<sRows, sTx, sId, sItem, sIdx, sBefore, sCalls>>
    /\ UNCHANGED storeOthers

InsertGuard ==
    /\ sPc = "insert"
    /\ sIdx <= Len(sItem.Predictions)

\* tx.Exec inserts the row of the next prediction
Insert ==
    /\ InsertGuard
    /\ ~PrimaryKeyViolated(InsertRow(sItem, sItem.Predictions[sIdx]), sRows \o sTx)
    /\ sTx' = Append(sTx, InsertRow(sItem, sItem.Predictions[sIdx]))
    /\ sIdx' = sIdx + 1
    /\ UNCHANGED <<sRows, sPc, sId, sItem, sErr, sBefore, sCalls>>
    /\ UNCHANGED storeOthers

\* mutant: the statements run outside a transaction, so that the rows
\* inserted before the failure stay
RollbackKeeps(err) ==
    /\ sRows' = sRows \o sTx
    /\ sTx' = <<>>
    /\ sErr' = err
    /\ sPc' = "done"
    /\ UNCHANGED <<sId, sItem, sIdx, sBefore, sCalls>>

\* return err with the deferred tx.Rollback(): the rows of the transaction
\* are dropped
RollbackWith(err) ==
    /\ sTx' = <<>>
    /\ sErr' = err
    /\ sPc' = "done"
    /\ UNCHANGED <<sRows, sId, sItem, sIdx, sBefore, sCalls>>

\* tx.Exec fails on the primary key
InsertDuplicate ==
    /\ InsertGuard
    /\ PrimaryKeyViolated(InsertRow(sItem, sItem.Predictions[sIdx]), sRows \o sTx)
    /\ RollbackWith("constraint failed")
    /\ UNCHANGED storeOthers

\* tx.Exec fails for another reason (the disk, the connection)
InsertFails ==
    /\ InsertGuard
    /\ RollbackWith("insert failed")
    /\ UNCHANGED storeOthers

\* tx.Commit() succeeds: the rows of the transaction join the table
Commit ==
    /\ sPc = "insert"
    /\ sIdx > Len(sItem.Predictions)
    /\ sRows' = sRows \o sTx
    /\ sTx' = <<>>
    /\ sErr' = "nil"
    /\ sPc' = "done"
    /\ UNCHANGED <<sId, sItem, sIdx, sBefore, sCalls>>
    /\ UNCHANGED storeOthers

\* tx.Commit() fails: nothing is written
CommitFails ==
    /\ sPc = "insert"
    /\ sIdx > Len(sItem.Predictions)
    /\ RollbackWith("commit failed")
    /\ UNCHANGED storeOthers

----------------------------------------------------------------------------
(* The sqlite Store: GetPrediction and SearchPrediction *)

\* gildasai.Prediction built from the columns network, label, score of a row;
\* a float32 score is stored as a real and read back unchanged
Prediction(row) == [Network |-> row.network, Label |-> row.label, Score |-> row.score]

\* "order by score desc": the rows in any order in which no row comes before
\* a row of higher score; rows of equal score come in any order
ScoreOrders(rows) ==
    {f \in [1..Cardinality(rows) -> rows] :
        /\ \A i, j \in 1..Cardinality(rows) : f[i] = f[j] => i = j
        /\ \A i, j \in 1..Cardinality(rows) : i < j => f[i].score >= f[j].score}

NoGot == [called |-> FALSE, id |-> "x", calls |-> 0, item |-> NoItem,
          found |-> FALSE, err |-> "nil"]
NoSearch == [query |-> "", start |-> "", after |-> "", n |-> 0, calls |-> 0, err |-> "nil"]

QueryIdle ==
    /\ qGot = NoGot
    /\ qSearch = NoSearch
    /\ qPages = <<>>

\* the Store is called from one goroutine: a query runs between two calls.
\* The queries of the model follow NewStore or a StorePrediction call that
\* returned nil: a call that failed leaves the table as it was before it.
\* qGot, qSearch and qPages hold the result of the last query only
StoreQuiet == sPc = "idle" \/ (sPc = "done" /\ sErr = "nil")

\* the caller makes one query, with the pages that follow it, after its
\* StorePrediction calls
FirstQuery == StoreQuiet /\ QueryIdle

\* the caller stores its items, then queries the table
StoreBeforeQueries(id, item) ==
    /\ QueryIdle
    /\ StorePrediction(id, item)

\* GetPrediction(id): the rows of id, by score; no row is "not found"
GetPrediction(id) ==
    /\ FirstQuery
    /\ \E rows \in ScoreOrders({r \in Range(sRows) : r.id = id}) :
          qGot' = [called |-> TRUE, id |-> id, calls |-> sCalls,
                   item |-> IF Len(rows) = 0 THEN NoItem
                            ELSE [Identifier |-> id,
                                  Predictions |-> [i \in 1..Len(rows) |-> Prediction(rows[i])]],
                   found |-> Len(rows) # 0,
                   err |-> "nil"]
    /\ qSearch' = NoSearch
    /\ qPages' = <<>>
    /\ UNCHANGED queryOthers

\* c.Query or rows.Scan fails: return nil, true, err
GetPredictionFails(id) ==
    /\ FirstQuery
    /\ qGot' = [called |-> TRUE, id |-> id, calls |-> sCalls, item |-> NoItem,
                found |-> TRUE, err |-> "query failed"]
    /\ qSearch' = NoSearch
    /\ qPages' = <<>>
    /\ UNCHANGED queryOthers

\* the query strings of the model and the labels that contain them
Queries == {"", "a"}
\* label like '%query%': every label contains "", and "cat" contains "a"
Like(query, label) ==
    \/ query = ""
    \/ query = "a" /\ label = "cat"

\* the order of the identifiers as strings; "" is before every identifier
IdRank(id) == CASE id = "" -> 0 [] id = "x" -> 1 [] id = "y" -> 2
\* id > $2
IdAfter(id, after) == IdRank(id) > IdRank(after)

\* the values of n of the model
PageSizes == {1, 2}
Min(a, b) == IF a < b THEN a ELSE b

\* "limit n" on a select without order: any n of the rows, all when there
\* are fewer
LimitSets(rows, n) ==
    {T \in SUBSET rows : Cardinality(T) = Min(n, Cardinality(rows))}

\* the rows that the select statement of SearchPrediction may return
SearchRows(rows, query, after, n) ==
    IF query # "" /\ after # ""
    THEN UNION {ScoreOrders({r \in rows : r.id \in {t.id : t \in T}}) :
                   T \in LimitSets({r \in rows : Like(query, r.label) /\ IdAfter(r.id, after)}, n)}
    ELSE IF query # ""
    THEN UNION {ScoreOrders({r \in rows : r.id \in {t.id : t \in T}}) :
                   T \in LimitSets({r \in rows : Like(query, r.label)}, n)}
    ELSE IF after # ""
    THEN {SubSeq(f, 1, Min(n, Len(f))) :
             f \in ScoreOrders({r \in rows : IdAfter(r.id, after)})}
    ELSE {SubSeq(f, 1, Min(n, Len(f))) : f \in ScoreOrders(rows)}

\* preds[id] = append(preds[id], ...) over the rows
GroupById(rowSeq) ==
    [id \in {rowSeq[i].id : i \in 1..Len(rowSeq)} |->
        LET mine == SelectSeq(rowSeq, LAMBDA r : r.id = id)
        IN [i \in 1..Len(mine) |-> Prediction(mine[i])]]

\* mutant: one item for each row, without the map
ItemsOfRows(rowSeq) ==
    {[i \in 1..Len(rowSeq) |->
         [Identifier |-> rowSeq[i].id, Predictions |-> <<Prediction(rowSeq[i])>>]]}

\* for id, p := range preds: one item for each key of the map, in any order
ItemsOf(rowSeq) ==
    LET preds == GroupById(rowSeq)
        keys == DOMAIN preds
    IN {[i \in 1..Cardinality(keys) |-> [Identifier |-> f[i], Predictions |-> preds[f[i]]]] :
           f \in {g \in [1..Cardinality(keys) -> keys] :
                     \A i, j \in 1..Cardinality(keys) : g[i] = g[j] => i = j}}

\* the pages SearchPrediction(query, after, n) may return
Pages(query, after, n) ==
    UNION {ItemsOf(rowSeq) : rowSeq \in SearchRows(Range(sRows), query, after, n)}

\* SearchPrediction(query, after, n) returns items, nil: the first page of a
\* pagination
SearchPrediction(query, after, n) ==
    /\ FirstQuery
    /\ qSearch' = [query |-> query, start |-> after, after |-> after, n |-> n,
                   calls |-> sCalls, err |-> "nil"]
    /\ \E page \in Pages(query, after, n) : qPages' = <<page>>
    /\ qGot' = NoGot
    /\ UNCHANGED queryOthers

\* c.Query or rows.Scan fails: return nil, err
SearchPredictionFails(query, after, n) ==
    /\ FirstQuery
    /\ qSearch' = [query |-> query, start |-> after, after |-> after, n |-> n,
                   calls |-> sCalls, err |-> "error querying sqlite store"]
    /\ qPages' = <<>>
    /\ qGot' = NoGot
    /\ UNCHANGED queryOthers

LastPage == qPages[Len(qPages)]

\* the caller asks for the next page of a table that did not change, with
\* the identifier of the last item of the previous page as after
NextPage ==
    /\ StoreQuiet
    /\ qSearch.calls = sCalls
    /\ qPages # <<>>
    /\ LastPage # <<>>
    /\ LET after == LastPage[Len(LastPage)].Identifier
       IN /\ qSearch' = [qSearch EXCEPT !.after = after]
          /\ \E page \in Pages(qSearch.query, after, qSearch.n) :
                qPages' = Append(qPages, page)
    /\ UNCHANGED qGot
    /\ UNCHANGED queryOthers

----------------------------------------------------------------------------
(* Descriptors.DistanceTo *)

\* largest number of components of a descriptor
MaxDescLen == 3

\* a float32 is a finite number, written in thousandths (3000 is 3.0), an
\* infinity or NaN; the arithmetic rounds to the nearest thousandth
Fin(v) == [kind |-> "fin", v |-> v]
Inf(sign) == [kind |-> "inf", v |-> sign]
NaN == [kind |-> "nan", v |-> 0]

\* the == of Go on floats: NaN equals nothing
FloatEq(x, y) == x.kind # "nan" /\ y.kind # "nan" /\ x = y

Sign(v) == IF v > 0 THEN 1 ELSE IF v < 0 THEN -1 ELSE 0

\* x - y
FSub(x, y) ==
    IF x.kind = "nan" \/ y.kind = "nan" THEN NaN
    ELSE IF x.kind = "inf" /\ y.kind = "inf"
         THEN IF x.v = y.v THEN NaN ELSE x
    ELSE IF x.kind = "inf" THEN x
    ELSE IF y.kind = "inf" THEN Inf(-y.v)
    ELSE Fin(x.v - y.v)

\* x + y
FAdd(x, y) ==
    IF x.kind = "nan" \/ y.kind = "nan" THEN NaN
    ELSE IF x.kind = "inf" /\ y.kind = "inf"
         THEN IF x.v = y.v THEN x ELSE NaN
    ELSE IF x.kind = "inf" THEN x
    ELSE IF y.kind = "inf" THEN y
    ELSE Fin(x.v + y.v)

\* x * y
FMul(x, y) ==
    IF x.kind = "nan" \/ y.kind = "nan" THEN NaN
    ELSE IF x.kind = "inf" \/ y.kind = "inf"
         THEN IF Sign(x.v) * Sign(y.v) = 0 THEN NaN ELSE Inf(Sign(x.v) * Sign(y.v))
    ELSE Fin(TruncDiv(2 * x.v * y.v + Sign(x.v * y.v) * 1000, 2000))

\* the largest r of lo..hi with r * r <= n
RECURSIVE FloorSqrt(_, _, _)
FloorSqrt(n, lo, hi) ==
    IF lo >= hi THEN lo
    ELSE LET mid == (lo + hi + 1) \div 2
         IN IF mid * mid <= n THEN FloorSqrt(n, mid, hi) ELSE FloorSqrt(n, lo, mid - 1)

\* math.Sqrt
FSqrt(x) ==
    IF x.kind = "nan" THEN NaN
    ELSE IF x.kind = "inf" THEN (IF x.v > 0 THEN x ELSE NaN)
    ELSE IF x.v < 0 THEN NaN
    ELSE LET n == x.v * 1000
             r == FloorSqrt(n, 0, 40000)
         IN Fin(IF n - r * r > r THEN r + 1 ELSE r)

NoDistErr == [kind |-> "nil", a |-> 0, b |-> 0]
\* errors.Errorf("cannot calculate distance between descriptors of
\* dimensions %d and %d", len(d), len(d2))
DimensionsErr(d, d2) == [kind |-> "dimensions", a |-> Len(d), b |-> Len(d2)]

\* mutant: the differences are summed without being squared
RECURSIVE SumOfDifferences(_, _, _, _)
SumOfDifferences(d, d2, i, sum) ==
    IF i > Len(d) THEN sum
    ELSE SumOfDifferences(d, d2, i + 1, FAdd(sum, FSub(d[i], d2[i])))

\* the loop: sum += (d[i] - d2[i]) * (d[i] - d2[i])
RECURSIVE SumOfSquares(_, _, _, _)
SumOfSquares(d, d2, i, sum) ==
    IF i > Len(d) THEN sum
    ELSE SumOfSquares(d, d2, i + 1,
                      FAdd(sum, FMul(FSub(d[i], d2[i]), FSub(d[i], d2[i]))))

\* mutant: only a receiver longer than the argument is refused
LongerThan(d, d2) == Len(d) > Len(d2)

\* len(d) != len(d2)
DimensionMismatch(d, d2) == Len(d) # Len(d2)

DistanceTo(d, d2) ==
    IF DimensionMismatch(d, d2)
    THEN [value |-> Fin(0), err |-> DimensionsErr(d, d2)]
    ELSE [value |-> FSqrt(SumOfSquares(d, d2, 1, Fin(0))), err |-> NoDistErr]

NoDist == [value |-> Fin(0), err |-> NoDistErr]

DistIdle ==
    /\ dA = <<>>
    /\ dB = <<>>
    /\ dRet = NoDist
    /\ dPc = "idle"

\* the components of the model: 0, 3, 4, +Inf and NaN
FloatVals == {Fin(0), Fin(3000), Fin(4000), Inf(1), NaN}
DescSeqs == UNION {[1..n -> FloatVals] : n \in 0..MaxDescLen}

DistInit ==
    /\ dA \in DescSeqs
    /\ dB \in DescSeqs
    /\ dRet = NoDist
    /\ dPc = "input"

\* the call d.DistanceTo(d2) with d = dA and d2 = dB
Distance ==
    /\ dPc = "input"
    /\ dRet' = DistanceTo(dA, dB)
    /\ dPc' = "done"
    /\ UNCHANGED <<dA, dB>>
    /\ UNCHANGED distOthers

----------------------------------------------------------------------------
(* inspectFolder: one step per file-system or collaborator call *)

\* largest number of files that filepath.Glob finds in the folder
MaxFiles == 2

\* the names Glob may return, sorted as Glob sorts them
FolderFiles == <<"a.jpg", "b.jpg", "c.jpg", "d.jpg">>
\* the labels of the predictions of the classifier that are above threshold
ClassifierLists == {<<>>, <<"Cat">>, <<"Cat", "dog">>}
\* the lists that the cache may hold for a file
CachedLists == {<<>>, <<"dog">>, <<"cat", "cat">>}
FolderErrs == {"failed"}

\* strings.ToLower
ToLower(label) == IF label = "Cat" THEN "cat" ELSE label

NoObjects == [label \in {} |-> <<>>]
NoFolderRet == [objects |-> NoObjects, err |-> "nil"]

FolderIdle ==
    /\ fPc = "idle"
    /\ fCache = FALSE
    /\ fClassifier = FALSE
    /\ fFiles = <<>>
    /\ fIdx = 0
    /\ fObjects = NoObjects
    /\ fLog = <<>>
    /\ fRet = NoFolderRet

\* a caller enters inspectFolder(cache, classifier, folder)
InspectFolder(cache, classifier) ==
    /\ fPc = "idle"
    /\ fCache' = cache
    /\ fClassifier' = classifier
    /\ IF ~cache /\ ~classifier
       THEN /\ fPc' = "done"
            /\ fRet' = [objects |-> NoObjects,
                        err |-> "cannot inspect without cache or classifier"]
       ELSE /\ fPc' = "glob"
            /\ UNCHANGED fRet
    /\ UNCHANGED <<fFiles, fIdx, fObjects, fLog>>
    /\ UNCHANGED folderOthers

\* filepath.Glob fails: return nil, err
GlobFails ==
    /\ fPc = "glob"
    /\ fPc' = "done"
    /\ fRet' = [objects |-> NoObjects, err |-> "bad pattern"]
    /\ UNCHANGED <<fCache, fClassifier, fFiles, fIdx, fObjects, fLog>>
    /\ UNCHANGED folderOthers

\* filepath.Glob returns the n files of the folder
Glob(n) ==
    /\ fPc = "glob"
    /\ fFiles' = SubSeq(FolderFiles, 1, n)
    /\ fIdx' = 1
    /\ fPc' = "loop"
    /\ UNCHANGED <<fCache, fClassifier, fObjects, fLog, fRet>>
    /\ UNCHANGED folderOthers

FileGuard == fPc = "loop" /\ fIdx <= Len(fFiles)

\* mutant: the error of a file is returned
FileFailsAborts(what) ==
    /\ fLog' = Append(fLog, [file |-> fFiles[fIdx], what |-> what, preds |-> <<>>])
    /\ fPc' = "done"
    /\ fRet' = [objects |-> NoObjects, err |-> what]
    /\ UNCHANGED <<fCache, fClassifier, fFiles, fIdx, fObjects>>

\* the error of a file is printed; continue
FileFails(what) ==
    /\ fLog' = Append(fLog, [file |-> fFiles[fIdx], what |-> what, preds |-> <<>>])
    /\ fIdx' = fIdx + 1
    /\ fPc' = "loop"
    /\ UNCHANGED <<fCache, fClassifier, fFiles, fObjects, fRet>>

\* imageutils.FromFile(file) fails
DecodeFails ==
    /\ FileGuard
    /\ FileFails("error processing file")
    /\ UNCHANGED folderOthers

\* imageutils.FromFile(file) returns img
Decodes ==
    /\ FileGuard
    /\ fPc' = "decoded"
    /\ UNCHANGED <<fCache, fClassifier, fFiles, fIdx, fObjects, fLog, fRet>>
    /\ UNCHANGED folderOthers

\* for _, p := range preds { objects[p] = append(objects[p], file) }
RECURSIVE AddToIndex(_, _, _, _)
AddToIndex(objects, preds, i, file) ==
    IF i > Len(preds) THEN objects
    ELSE LET label == preds[i]
             files == IF label \in DOMAIN objects THEN objects[label] ELSE <<>>
         IN AddToIndex([l \in DOMAIN objects \cup {label} |->
                           IF l = label THEN Append(files, file) ELSE objects[l]],
                       preds, i + 1, file)

\* preds were obtained for the file: they are added to the index
FileIndexed(what, preds) ==
    /\ fLog' = Append(fLog, [file |-> fFiles[fIdx], what |-> what, preds |-> preds])
    /\ fObjects' = AddToIndex(fObjects, preds, 1, fFiles[fIdx])
    /\ fIdx' = fIdx + 1
    /\ fPc' = "loop"
    /\ UNCHANGED <<fCache, fClassifier, fFiles, fRet>>

\* cache.Inception(file, inception) returns the list it holds for the file
CacheReturns(preds) ==
    /\ fPc = "decoded"
    /\ fCache
    /\ FileIndexed("loaded from cache", preds)
    /\ UNCHANGED folderOthers

\* cache.Inception(file, inception) fails by itself
CacheFails(cause) ==
    /\ fPc = "decoded"
    /\ fCache
    /\ FileFails(cause)
    /\ UNCHANGED folderOthers

\* inception() without classifier: "no classifier given", which the cache
\* that called it returns
NoClassifier ==
    /\ fPc = "decoded"
    /\ fCache /\ ~fClassifier
    /\ FileFails("no classifier given")
    /\ UNCHANGED folderOthers

\* classifier.Inception(img) fails, called by the cache or directly
ClassifierFails ==
    /\ fPc = "decoded"
    /\ fClassifier
    /\ FileFails("error executing inception")
    /\ UNCHANGED folderOthers

\* classifier.Inception(img) returns predictions; the labels of those above
\* threshold are put in lower case
ClassifierReturns(labels) ==
    /\ fPc = "decoded"
    /\ fClassifier
    /\ FileIndexed("classified", [i \in 1..Len(labels) |-> ToLower(labels[i])])
    /\ UNCHANGED folderOthers

\* the loop is over: return objects, nil
FolderReturns ==
    /\ fPc = "loop"
    /\ fIdx > Len(fFiles)
    /\ fPc' = "done"
    /\ fRet' = [objects |-> fObjects, err |-> "nil"]
    /\ UNCHANGED <<fCache, fClassifier, fFiles, fIdx, fObjects, fLog>>
    /\ UNCHANGED folderOthers

----------------------------------------------------------------------------
(* The geometry specification: Center applied to bounded inputs *)

CoordSeqs == UNION {[1..n -> CoordVals] : n \in 0..MaxCoords}

GeoRects ==
    {Rect(x0, y0, x1, y1) : x0 \in 0..GeoMaxSide, y0 \in 0..GeoMaxSide,
                            x1 \in 0..GeoMaxSide, y1 \in 0..GeoMaxSide}

GeoFulls == {r \in GeoRects : r.minX = 0 /\ r.minY \in {0, 1}
                              /\ Dx(r) >= 1 /\ Dy(r) >= 1}
GeoCrops == {r \in GeoRects : r.minX \in {0, 1} /\ r.minY \in {0, 1}
                              /\ Dx(r) >= 0 /\ Dy(r) >= 0}

GeoInit ==
    /\ gFull \in GeoFulls
    /\ gCropped \in GeoCrops
    /\ gCoords \in CoordSeqs
    /\ gRect = NoRect
    /\ gPc = "input"

Center ==
    /\ gPc = "input"
    /\ gRect' = CenterRect(gCoords, gCropped, gFull)
    /\ gPc' = "done"
    /\ UNCHANGED <<gCropped, gFull, gCoords>>
    /\ UNCHANGED geoOthers

----------------------------------------------------------------------------
(* Specifications *)

InitGeo == GeoInit /\ ExtIdle /\ CacheIdle /\ StoreIdle /\ QueryIdle /\ DistIdle /\ FolderIdle
NextGeo == Center
SpecGeo == InitGeo /\ [][NextGeo]_vars

InitExt == GeoIdle /\ ExtIdle /\ CacheIdle /\ StoreIdle /\ QueryIdle /\ DistIdle /\ FolderIdle
NextExt ==
    \/ \E op \in {"Extract", "ExtractLandmarks"}, img \in ExtImages : ExtCall(op, img)
    \/ \E cause \in CollabErrs : DetectorFails(cause)
    \/ \E all \in DetSeqs : DetectorDetects(all)
    \/ LoopReturn
    \/ LoopSkip
    \/ \E cause \in CollabErrs : LandmarkFails(cause)
    \/ \E coords \in LandmarkOutputs : LandmarkDetects(coords)
    \/ \E cause \in CollabErrs : DescriptorFails(cause)
    \/ \E descriptors \in DescriptorOutputs : DescriptorComputes(descriptors)

SpecExt == InitExt /\ [][NextExt]_vars

\* callers of Inception that run concurrently, one call each
InitCache == GeoIdle /\ ExtIdle /\ CacheInit /\ StoreIdle /\ QueryIdle /\ DistIdle /\ FolderIdle
NextCache ==
    \/ \E p \in Procs, file \in Files : InceptionOnce(p, file)
    \/ \E p \in Procs : ReadHit(p)
    \/ \E p \in Procs : ReadMiss(p)
    \/ \E p \in Procs, cause \in ComputeErrs : ComputeFails(p, cause)
    \/ \E p \in Procs, preds \in LabelLists : ComputeReturns(p, preds)
    \/ \E p \in Procs : WriteSucceeds(p)
    \/ \E p \in Procs, truncated \in BOOLEAN : WriteFails(p, truncated)
    \/ \E p \in Procs : MkdirSucceeds(p)
    \/ \E p \in Procs : MkdirFails(p)
    \/ \E p \in Procs : RetrySucceeds(p)
    \/ \E p \in Procs, truncated \in BOOLEAN : RetryFails(p, truncated)
SpecCache == InitCache /\ [][NextCache]_vars

\* one caller of Inception that calls again and again
NextSeq ==
    \/ \E file \in Files : InceptionAgain(file)
    \/ \E p \in Procs : ReadHit(p)
    \/ \E p \in Procs : ReadMiss(p)
    \/ \E p \in Procs, cause \in ComputeErrs : ComputeFails(p, cause)
    \/ \E p \in Procs, preds \in LabelLists : ComputeReturns(p, preds)
    \/ \E p \in Procs : WriteSucceeds(p)
    \/ \E p \in Procs, truncated \in BOOLEAN : WriteFails(p, truncated)
    \/ \E p \in Procs : MkdirSucceeds(p)
    \/ \E p \in Procs : MkdirFails(p)
    \/ \E p \in Procs : RetrySucceeds(p)
    \/ \E p \in Procs, truncated \in BOOLEAN : RetryFails(p, truncated)
SpecSeq == InitCache /\ [][NextSeq]_vars

\* calls of the Store, one after the other, on a table that starts empty
InitStore == GeoIdle /\ ExtIdle /\ CacheIdle /\ StoreIdle /\ QueryIdle /\ DistIdle /\ FolderIdle
NextStore ==
    \/ \E id \in Ids, item \in Items : StorePrediction(id, item)
    \/ Begin
    \/ BeginFails
    \/ Insert
    \/ InsertDuplicate
    \/ InsertFails
    \/ Commit
    \/ CommitFails
SpecStore == InitStore /\ [][NextStore]_vars

\* calls of the Store and queries of the table between them
NextQuery ==
    \/ \E id \in Ids, item \in Items : StoreBeforeQueries(id, item)
    \/ Begin
    \/ BeginFails
    \/ Insert
    \/ InsertDuplicate
    \/ InsertFails
    \/ Commit
    \/ CommitFails
    \/ \E id \in Ids : GetPrediction(id)
    \/ \E id \in Ids : GetPredictionFails(id)
    \/ \E query \in Queries, after \in {""} \cup Ids, n \in PageSizes :
          SearchPrediction(query, after, n)
    \/ \E query \in Queries, after \in {""} \cup Ids, n \in PageSizes :
          SearchPredictionFails(query, after, n)
    \/ NextPage
SpecQuery == InitStore /\ [][NextQuery]_vars

\* DistanceTo applied to bounded descriptors
InitDist == GeoIdle /\ ExtIdle /\ CacheIdle /\ StoreIdle /\ QueryIdle /\ DistInit /\ FolderIdle
NextDist == Distance
SpecDist == InitDist /\ [][NextDist]_vars

\* one call of inspectFolder
InitFolder == GeoIdle /\ ExtIdle /\ CacheIdle /\ StoreIdle /\ QueryIdle /\ DistIdle /\ FolderIdle
NextFolder ==
    \/ \E cache \in BOOLEAN, classifier \in BOOLEAN : InspectFolder(cache, classifier)
    \/ GlobFails
    \/ \E n \in 0..MaxFiles : Glob(n)
    \/ DecodeFails
    \/ Decodes
    \/ \E preds \in CachedLists : CacheReturns(preds)
    \/ \E cause \in FolderErrs : CacheFails(cause)
    \/ NoClassifier
    \/ ClassifierFails
    \/ \E labels \in ClassifierLists : ClassifierReturns(labels)
    \/ FolderReturns
SpecFolder == InitFolder /\ [][NextFolder]_vars

----------------------------------------------------------------------------
(* Claims about the geometry *)

InRect(p, r) == r.minX <= p.X /\ p.X <= r.maxX /\ r.minY <= p.Y /\ p.Y <= r.maxY
RectIn(r, b) == b.minX <= r.minX /\ r.maxX <= b.maxX
                /\ b.minY <= r.minY /\ r.maxY <= b.maxY

GeoPoints == PointsOnImage(gCoords, gCropped)
\* the landmark set has a point and its bounding box lies within the full image
GeoBoxFits == /\ Len(GeoPoints) >= 1
              /\ \A k \in 1..Len(GeoPoints) : InRect(GeoPoints[k], gFull)

\* C1: for every landmark set whose bounding box lies within the full image,
\* the rectangle Center produces is square and lies within the full image.
\* Center does not keep this: a bounding box longer than the other side of
\* the full image is squared past that side and insideOf then moves the
\* opposite edge out of the image.
C1_SquareAndInside ==
    (gPc = "done" /\ GeoBoxFits) => (Dx(gRect) = Dy(gRect) /\ RectIn(gRect, gFull))

\* C18: for every landmark set, an empty one included, and every full image,
\* one smaller than the squared landmark box included, the rectangle that
\* Center computes never has inverted coordinates (Min.X > Max.X or
\* Min.Y > Max.Y).
\* Center does not keep this for a landmark set without points: the bounds
\* the loop starts from, Min = bounds.Max and Max = bounds.Min, stay as they
\* are, and neither square nor insideOf puts them right.
C18_NeverInverted ==
    gPc = "done" => (gRect.minX <= gRect.maxX /\ gRect.minY <= gRect.maxY)

----------------------------------------------------------------------------
(* Claims about the Extractor *)

Returned(op) == ePc = "done" /\ eOp = op
Succeeded(op) == Returned(op) /\ eRet.err = NilErr
CallsOf(who) == SelectSeq(eCalls, LAMBDA c : c.who = who)

\* C2 as stated: every crop Extract returns is at least 45 wide and 45 high.
C2_CropAtLeast45 ==
    Returned("Extract") =>
        \A i \in 1..Len(eRet.images) :
            Dx(eRet.images[i]) >= 45 /\ Dy(eRet.images[i]) >= 45

\* C2 as amended: each crop Extract returns is the Center rectangle of one
\* detection whose box is at least 45 wide and 45 high (the size test is on
\* the detection box); the crop itself, the squared box of the landmarks, may
\* be smaller.
C2_CropFromBoxAtLeast45 ==
    Succeeded("Extract") =>
        /\ Len(eRet.images) = Len(CallsOf("Descriptor"))
        /\ \A i \in 1..Len(CallsOf("Descriptor")) :
              /\ Dx(CallsOf("Descriptor")[i].det.Box) >= 45
              /\ Dy(CallsOf("Descriptor")[i].det.Box) >= 45

\* Extract returned a crop that is smaller than its detection box
C2_Witness ==
    /\ Succeeded("Extract")
    /\ \E i \in 1..Len(eRet.images) :
          /\ Dx(eRet.images[i]) < 45
          /\ Dx(CallsOf("Descriptor")[i].det.Box) >= 45

StageError(c) ==
    Wrap(c.err, CASE c.who = "Detector" -> "error detecting faces"
                  [] c.who = "Landmark" -> "error detecting landmarks"
                  [] c.who = "Descriptor" -> "error computing descriptors")

\* C3: Extract never partially fails: when the Detector, or the Landmark or
\* Descriptor stage of any surviving detection fails, the call returns that
\* stage's error (a different kind for each stage) with no crops and no
\* descriptors; when no stage fails it returns no error.
C3_NoPartialFailure ==
    Returned("Extract") =>
        IF \E i \in 1..Len(eCalls) : eCalls[i].err # "nil"
        THEN /\ eRet.err = StageError(eCalls[Len(eCalls)])
             /\ eRet.err # NilErr
             /\ \A i \in 1..(Len(eCalls) - 1) : eCalls[i].err = "nil"
             /\ eRet.images = <<>>
             /\ eRet.second = <<>>
        ELSE eRet.err = NilErr

\* a stage failed after an earlier detection had been processed
C3_Witness ==
    /\ Returned("Extract")
    /\ eRet.err # NilErr
    /\ Len(eImages) >= 1
    /\ eRet.images = <<>>

NoneReaches(threshold) == \A i \in 1..Len(eAll) : eAll[i].Score < threshold
DetectorSucceeded == Len(eCalls) >= 1 /\ eCalls[1].err = "nil"

\* C4: when the Detector succeeds and no detection reaches the threshold,
\* Extract (0.6) returns an empty list and no error and ExtractLandmarks
\* (0.4) fails with "no face detected".
C4_NoDetectionAboveThreshold ==
    /\ (ePc \in {"loop", "done"} /\ eOp = "Extract" /\ DetectorSucceeded /\ NoneReaches(6)) =>
          /\ Len(eCalls) = 1
          /\ ePc = "done" => eRet = [images |-> <<>>, second |-> <<>>, err |-> NilErr]
    /\ (ePc # "detect" /\ eOp = "ExtractLandmarks" /\ DetectorSucceeded /\ NoneReaches(4)) =>
          /\ ePc = "done"
          /\ eRet = [images |-> <<>>, second |-> <<>>, err |-> Wrap("nil", "no face detected")]

\* Extract returned an empty list for detections that ExtractLandmarks keeps
C4_Witness ==
    /\ Succeeded("Extract")
    /\ Len(eAll) >= 1
    /\ NoneReaches(6)
    /\ ~NoneReaches(4)
    /\ eRet.images = <<>>

\* the box is at least 45 pixels wide and 45 pixels high
BigBox(d) == Dx(d.Box) >= 45 /\ Dy(d.Box) >= 45
\* the detections of the Detector that reach the threshold of the entry point
\* and have a box of 45 by 45 at least, in the Detector's order
Survivors ==
    SelectSeq(eAll, LAMBDA d : d.Score >= (IF eOp = "Extract" THEN 6 ELSE 4) /\ BigBox(d))
DetsOf(calls) == [i \in 1..Len(calls) |-> calls[i].det]

\* C16: in Extract and in ExtractLandmarks the Landmark and Descriptor
\* collaborators are never invoked for a detection whose box is narrower or
\* shorter than 45 pixels, whatever its score; such detections are skipped
\* without error and do not stop later detections from being processed.
C16_SmallBoxesSkipped ==
    /\ \A i \in 1..Len(eCalls) : eCalls[i].who # "Detector" => BigBox(eCalls[i].det)
    /\ (ePc = "done" /\ eRet.err = NilErr) => DetsOf(CallsOf("Landmark")) = Survivors
    /\ (ePc = "done" /\ eRet.err # NilErr) =>
          \/ eCalls[Len(eCalls)].err # "nil"
          \/ eOp = "ExtractLandmarks" /\ \A i \in 1..Len(eAll) : eAll[i].Score < 4

\* a call returned without error after it skipped a detection of high score
\* whose box is too small and processed the detection after it
C16_Witness ==
    /\ ePc = "done" /\ eRet.err = NilErr
    /\ Len(eAll) = 2
    /\ eAll[1].Score >= 6 /\ ~BigBox(eAll[1])
    /\ Survivors = <<eAll[2]>>
    /\ DetsOf(CallsOf("Landmark")) = <<eAll[2]>>

IsPrefix(short, long) ==
    /\ Len(short) <= Len(long)
    /\ \A i \in 1..Len(short) : short[i] = long[i]

\* C17: within one Extract call the Detector is invoked exactly once and
\* before any other collaborator; for each surviving detection, in the
\* Detector's output order, the Landmark call precedes that detection's
\* Descriptor call, the Descriptor is invoked only after its Landmark call
\* succeeded, and after any stage failure no further collaborator call is
\* made.
C17_StageOrder ==
    eOp = "Extract" =>
        /\ ePc = "detect" => eCalls = <<>>
        /\ ePc # "detect" => Len(eCalls) >= 1
        /\ \A i \in 1..Len(eCalls) : (eCalls[i].who = "Detector") = (i = 1)
        /\ \A i \in 1..Len(eCalls) :
              eCalls[i].who = "Descriptor" =>
                  /\ eCalls[i - 1].who = "Landmark"
                  /\ eCalls[i - 1].det = eCalls[i].det
                  /\ eCalls[i - 1].err = "nil"
        /\ \A i \in 1..(Len(eCalls) - 1) :
              /\ eCalls[i].err = "nil"
              /\ eCalls[i].who = "Landmark" => eCalls[i + 1].who = "Descriptor"
        /\ IsPrefix(DetsOf(CallsOf("Landmark")), Survivors)
        /\ IsPrefix(DetsOf(CallsOf("Descriptor")), Survivors)
        /\ (ePc = "done" /\ eRet.err = NilErr) =>
              DetsOf(CallsOf("Descriptor")) = Survivors

\* Extract returned the error of the Descriptor of its second surviving
\* detection, whose score is higher than the score of the first
C17_Witness ==
    /\ Returned("Extract")
    /\ Len(eCalls) = 5
    /\ eCalls[5].who = "Descriptor" /\ eCalls[5].err # "nil"
    /\ eCalls[3].det.Score < eCalls[5].det.Score
    /\ eRet.err = Wrap(eCalls[5].err, "error computing descriptors")

NoFaceDetected == Wrap("nil", "no face detected")

\* C22: ExtractLandmarks fails with "no face detected" exactly when the
\* Detector succeeds and no detection has a score of 0.4 at least; whenever
\* it returns without error, the list of point sets and the list of crops
\* have the same length, the number of detections with a score of 0.4 at
\* least and a box of 45 by 45 at least, which can be zero (success with
\* empty output when all surviving boxes are too small).
C22_LandmarksOutcome ==
    Returned("ExtractLandmarks") =>
        /\ (eRet.err = NoFaceDetected) = (DetectorSucceeded /\ NoneReaches(4))
        /\ eRet.err = NilErr =>
              /\ Len(eRet.second) = Len(eRet.images)
              /\ Len(eRet.images) = Len(Survivors)
              /\ \A i \in 1..Len(Survivors) : eRet.images[i] = Survivors[i].Box

\* ExtractLandmarks returned no error and nothing for a detection of score
\* 0.4 whose box is too small
C22_Witness ==
    /\ Succeeded("ExtractLandmarks")
    /\ Len(eAll) = 1
    /\ eAll[1].Score = 4
    /\ ~BigBox(eAll[1])
    /\ eRet.images = <<>> /\ eRet.second = <<>>

----------------------------------------------------------------------------
(* Claims about LocalCache *)

SameKeyPairs == {i \in 1..(Len(cLog) - 1) : cLog[i].key = cLog[i + 1].key}
BothSucceed(i) == cLog[i].err = NilErr /\ cLog[i + 1].err = NilErr
Computes(i) == IF cLog[i].computed THEN 1 ELSE 0

\* C5 as stated: two successive calls of Inception with the same key and a
\* compute function that succeeds invoke it exactly once in total and return
\* identical results.
C5_ComputedExactlyOnce ==
    \A i \in SameKeyPairs :
        BothSucceed(i) =>
            /\ Computes(i) + Computes(i + 1) = 1
            /\ cLog[i].preds = cLog[i + 1].preds

\* C5 as amended: of two successive calls with the same key and a compute
\* function that succeeds, the second does not compute when the first left a
\* well-formed entry (it hit, or its save succeeded) and then returns the
\* first call's list as JSON stores it (equal to it when its labels are valid
\* UTF-8), so compute runs exactly once when the first call missed and
\* saved; when the first call's save failed, both calls compute.
C5_ComputedOnceWhenSaved ==
    \A i \in SameKeyPairs :
        BothSucceed(i) =>
            /\ cLog[i].after.kind = "json" =>
                  /\ ~cLog[i + 1].computed
                  /\ cLog[i + 1].preds = CoerceAll(cLog[i].preds)
                  /\ cLog[i].before.kind # "json" => Computes(i) + Computes(i + 1) = 1
            /\ cLog[i].after.kind # "json" => Computes(i) + Computes(i + 1) = 2

\* a call that missed, computed and saved, then a call that hit
C5_Witness ==
    \E i \in SameKeyPairs :
        /\ BothSucceed(i)
        /\ cLog[i].computed
        /\ cLog[i].preds # <<>>
        /\ ~cLog[i + 1].computed

CacheFileOf(p) == cFile[cacheName(cKey[p])]
LastLog == cLog[Len(cLog)]

\* C6: when a well-formed entry exists for the key as Inception reads it, the
\* call returns exactly the stored list without invoking the compute
\* function, and leaves the cache as it is.
C6_HitReturnsStored ==
    [][\A p \in Procs :
          (cPc[p] = "read" /\ CacheFileOf(p).kind = "json" /\ cPc'[p] # "read") =>
              /\ cPc'[p] = "done"
              /\ Len(cLog') = Len(cLog) + 1
              /\ LastLog'.key = cKey[p]
              /\ LastLog'.preds = CacheFileOf(p).list
              /\ LastLog'.err = NilErr
              /\ ~LastLog'.computed
              /\ LastLog'.writes = 0 /\ LastLog'.mkdirs = 0
              /\ cFile' = cFile
              /\ cDir' = cDir]_vars

\* a call returned a stored list that is not empty
C6_Witness ==
    \E i \in 1..Len(cLog) :
        /\ ~cLog[i].computed
        /\ cLog[i].err = NilErr
        /\ cLog[i].preds # <<>>
        /\ cLog[i].before = Json(cLog[i].preds)

NextSameKey(i, j) ==
    /\ i < j
    /\ cLog[i].key = cLog[j].key
    /\ \A k \in (i + 1)..(j - 1) : cLog[k].key # cLog[i].key

\* C7: when Inception misses and the compute function fails, the error is
\* returned, the entry of the key is neither created nor modified, and the
\* next call with the same key invokes the compute function again.
C7_FailureNotCached ==
    \A i \in 1..Len(cLog) :
        cLog[i].err # NilErr =>
            /\ cLog[i].computed
            /\ cLog[i].err \in {InceptionErr(c) : c \in ComputeErrs}
            /\ cLog[i].preds = <<>>
            /\ cLog[i].writes = 0 /\ cLog[i].mkdirs = 0
            /\ cLog[i].after = cLog[i].before
            /\ \A j \in 1..Len(cLog) : NextSameKey(i, j) => cLog[j].computed

\* a failed call in a directory that exists, then a call with the same key
C7_Witness ==
    \E i \in SameKeyPairs :
        /\ cLog[i].err # NilErr
        /\ cDir
        /\ cLog[i + 1].computed

Missed(p) == cPc[p] = "read" /\ ~readCache(CacheFileOf(p)).ok

\* C8: the cache has no mutual exclusion per key: a call that misses goes on
\* to the compute function whatever the other calls are doing, so two
\* concurrent calls with the same key can both miss and both compute.
C8_MissNeverWaits ==
    \A p \in Procs : Missed(p) => ENABLED ReadMiss(p)

\* two running calls with the same key have both invoked the compute function
C8_Witness ==
    /\ cKey["p1"] = cKey["p2"]
    /\ \A p \in Procs :
          /\ cPc[p] \in {"write1", "mkdir", "write2"}
          /\ cTrace[p].computed
          /\ cTrace[p].before.kind # "json"

\* what saveCache has done at each position of a running call
SaveSteps(p) ==
    /\ cPc[p] \in {"read", "compute"} => cTrace[p].writes = 0 /\ cTrace[p].mkdirs = 0
    /\ cPc[p] = "write1" => cTrace[p].writes = 0 /\ cTrace[p].mkdirs = 0
    /\ cPc[p] = "mkdir" => cTrace[p].writes = 1 /\ cTrace[p].mkdirs = 0
    /\ cPc[p] = "write2" => cTrace[p].writes = 1 /\ cTrace[p].mkdirs = 1 /\ cDir

\* what saveCache did in a call that returned
SaveDone(c) ==
    /\ c.writes <= 2 /\ c.mkdirs <= 1
    /\ c.mkdirs = 1 => c.writes >= 1
    /\ c.writes = 2 => c.mkdirs = 1
    /\ c.writes >= 1 => c.computed /\ c.err = NilErr
    /\ (c.computed /\ c.err = NilErr) => c.writes >= 1
    /\ (c.writes = 1 /\ c.mkdirs = 0) => c.after = Marshal(c.preds)
    /\ (c.writes = 1 /\ c.mkdirs = 1) => c.after \in {c.before, Garbage}
    /\ c.writes = 2 => c.after \in {Marshal(c.preds), c.before, Garbage}

\* C19: saveCache attempts the write and, only if that write fails, creates
\* the cache directory and retries the write exactly once: at most two write
\* attempts and at most one directory creation per call, the retry only after
\* a directory creation that succeeded, and any failure that remains is
\* swallowed: the enclosing Inception call returns the computed list and no
\* error.
C19_WriteMkdirRetry ==
    /\ [](\A p \in Procs : SaveSteps(p))
    /\ [](\A i \in 1..Len(cLog) : SaveDone(cLog[i]))
    /\ [][\A p \in Procs :
            /\ (cPc[p] # "write2" /\ cPc'[p] = "write2") =>
                  (cPc[p] = "mkdir" /\ ~cDir /\ cDir')
            /\ (cPc[p] # "mkdir" /\ cPc'[p] = "mkdir") =>
                  (cPc[p] = "write1" /\ cFile'[cacheName(cKey[p])] # Marshal(cPreds[p]))
            /\ (cPc[p] \in {"write1", "mkdir", "write2"} /\ cPc'[p] = "done") =>
                  (LastLog'.err = NilErr /\ LastLog'.preds = cPreds[p])]_vars

\* the retry failed, nothing was saved, and the call returned its list
C19_Witness ==
    \E i \in 1..Len(cLog) :
        /\ cLog[i].writes = 2 /\ cLog[i].mkdirs = 1
        /\ cLog[i].err = NilErr
        /\ cLog[i].preds # <<>>
        /\ cLog[i].after.kind # "json"

\* the call found a file that is no list of labels, computed, and its first
\* write succeeded
Overwrote(c) ==
    /\ c.before = Garbage
    /\ c.err = NilErr
    /\ c.writes = 1 /\ c.mkdirs = 0

\* C21 as stated: a cache file that exists but cannot be parsed as a label
\* list is treated as a miss: Inception invokes the compute function and, on
\* success, overwrites the file so that, if the write succeeds, the next call
\* with the same key is a hit that returns the computed list.
C21_UnparseableIsMiss ==
    \A i \in 1..Len(cLog) :
        /\ cLog[i].before = Garbage => cLog[i].computed
        /\ Overwrote(cLog[i]) =>
              /\ cLog[i].after.kind = "json"
              /\ \A j \in 1..Len(cLog) :
                    NextSameKey(i, j) =>
                        /\ ~cLog[j].computed
                        /\ cLog[j].err = NilErr
                        /\ cLog[j].preds = cLog[i].preds

\* C21 as amended: a cache file that exists but cannot be parsed as a label
\* list is treated as a miss: Inception invokes the compute function and, on
\* success, overwrites the file with the list as JSON encodes it so that, if
\* the write succeeds, the next call with the same key is a hit that returns
\* that encoded list: the computed list when its labels are valid UTF-8,
\* and the list with U+FFFD in place of the invalid bytes otherwise.
C21_UnparseableIsMissEncoded ==
    \A i \in 1..Len(cLog) :
        /\ cLog[i].before = Garbage => cLog[i].computed
        /\ Overwrote(cLog[i]) =>
              /\ cLog[i].after = Json(CoerceAll(cLog[i].preds))
              /\ \A j \in 1..Len(cLog) :
                    NextSameKey(i, j) =>
                        /\ ~cLog[j].computed
                        /\ cLog[j].err = NilErr
                        /\ cLog[j].preds = CoerceAll(cLog[i].preds)
                        /\ (\A k \in 1..Len(cLog[i].preds) : cLog[i].preds[k] # "bad") =>
                              cLog[j].preds = cLog[i].preds

\* a call overwrote a file that was no list and the next call with its key
\* returned the computed list without computing
C21_Witness ==
    \E i \in SameKeyPairs :
        /\ Overwrote(cLog[i])
        /\ cLog[i].computed
        /\ cLog[i].preds = <<"cat">>
        /\ ~cLog[i + 1].computed
        /\ cLog[i + 1].preds = <<"cat">>

----------------------------------------------------------------------------
(* Claims about the Store *)

ItemRows(item) == [i \in 1..Len(item.Predictions) |-> InsertRow(item, item.Predictions[i])]
StoreReturned == sPc = "done"

\* C9: StorePrediction is all-or-nothing: when an insert or the commit fails
\* the call returns an error and the table holds exactly the rows it held
\* before the call, also when earlier predictions of the item had been
\* inserted; when it returns no error the table holds all rows of the item.
C9_AllOrNothing ==
    /\ sPc \in {"begin", "insert"} => sRows = sBefore
    /\ StoreReturned =>
          IF sErr = "nil"
          THEN sRows = sBefore \o ItemRows(sItem)
          ELSE sRows = sBefore /\ sTx = <<>>

\* an insert failed after an earlier prediction of the item was inserted
C9_Witness ==
    /\ StoreReturned
    /\ sErr \in {"constraint failed", "insert failed"}
    /\ sIdx >= 2
    /\ sRows = sBefore

Stored == sRows \o sTx
HasTriple(rows, item) ==
    \E i \in 1..Len(item.Predictions) :
        PrimaryKeyViolated(InsertRow(item, item.Predictions[i]), rows)

\* C10: storing a prediction whose (identifier, network, label) is already
\* in the table fails with an error and leaves the rows as they are, and the
\* table never holds two rows with the same triple.
C10_DuplicateTripleFails ==
    /\ \A i, j \in 1..Len(Stored) : Triple(Stored[i]) = Triple(Stored[j]) => i = j
    /\ (StoreReturned /\ HasTriple(sBefore, sItem)) => (sErr # "nil" /\ sRows = sBefore)

\* the second store of a triple failed on the primary key
C10_Witness ==
    /\ StoreReturned
    /\ sErr = "constraint failed"
    /\ HasTriple(sBefore, sItem)
    /\ sRows = sBefore
    /\ Len(sRows) >= 1

----------------------------------------------------------------------------
(* Claims about the queries of the Store *)

PredSet(item) == Range(item.Predictions)
\* the last StorePrediction call succeeded and GetPrediction ran after it
\* with the same id
GotAfterStore ==
    /\ sPc = "done" /\ sErr = "nil"
    /\ qGot.called /\ qGot.calls = sCalls
    /\ qGot.id = sId
    /\ qGot.err = "nil"

\* C11: for every identifier id and item, a successful StorePrediction(id,
\* item) followed by GetPrediction(id) returns found = true and an item whose
\* set of predictions equals the stored item's set of predictions.
\* StorePrediction does not keep this: it writes the rows under
\* item.Identifier and never reads id, and an item without predictions writes
\* no row.
C11_StoreThenGet ==
    GotAfterStore => (qGot.found /\ PredSet(qGot.item) = PredSet(sItem))

PageIds(page) == [i \in 1..Len(page) |-> page[i].Identifier]
RECURSIVE IdsOfPages(_, _)
IdsOfPages(pages, i) ==
    IF i > Len(pages) THEN <<>> ELSE PageIds(pages[i]) \o IdsOfPages(pages, i + 1)
NoIdTwice(ids) == \A i, j \in 1..Len(ids) : ids[i] = ids[j] => i = j

\* the pagination that began with no cursor has reached its empty last page
PaginationOver ==
    /\ qSearch.err = "nil"
    /\ qSearch.start = ""
    /\ qPages # <<>>
    /\ LastPage = <<>>

\* the identifiers of a single query with no cursor and a limit that no page
\* reaches
Unpaginated(query) ==
    {Range(PageIds(page)) : page \in Pages(query, "", Len(sRows))}

\* C12: for any store contents, query and page size n, the pages obtained by
\* calling SearchPrediction again and again with the final identifier of the
\* previous page as after hold no identifier twice and hold exactly the
\* identifiers of a single unpaginated query.
\* SearchPrediction does not keep this: no statement orders the rows by
\* identifier, and the items come in the order of a Go map.
C12_PagesCoverOnce ==
    PaginationOver =>
        /\ NoIdTwice(IdsOfPages(qPages, 1))
        /\ Unpaginated(qSearch.query) = {Range(IdsOfPages(qPages, 1))}

\* C13: in each of the four query shapes (query and after, query only, after
\* only, neither) the items that one SearchPrediction call returns have
\* pairwise distinct identifiers, also when an identifier has several
\* matching prediction rows.
C13_DistinctIdsInPage ==
    \A k \in 1..Len(qPages) : NoIdTwice(PageIds(qPages[k]))

\* a call with a query and a cursor returned an item made of two rows
C13_Witness ==
    /\ qSearch.query # "" /\ qSearch.after # ""
    /\ qPages # <<>>
    /\ \E i \in 1..Len(LastPage) : Len(LastPage[i].Predictions) >= 2

----------------------------------------------------------------------------
(* Claims about DistanceTo *)

DistanceReturned == dPc = "done"
AllFinite(d) == \A i \in 1..Len(d) : d[i].kind = "fin"

\* the sum of the squared differences of finite components, in millionths
RECURSIVE SquaredDistance(_, _, _)
SquaredDistance(a, b, i) ==
    IF i > Len(a) THEN 0
    ELSE (a[i].v - b[i].v) * (a[i].v - b[i].v) + SquaredDistance(a, b, i + 1)

\* x is the square root of n millionths, to the nearest thousandth
IsRootOf(x, n) ==
    /\ x.kind = "fin"
    /\ x.v >= 0
    /\ x.v = 0 \/ (2 * x.v - 1) * (2 * x.v - 1) <= 4 * n
    /\ 4 * n < (2 * x.v + 1) * (2 * x.v + 1)

\* C14 as stated: for all descriptor pairs a, b of equal length, DistanceTo
\* is symmetric and a.DistanceTo(a) is 0, the value being the square root of
\* the sum of the squared component differences.
C14_SymmetricZeroOnSelf ==
    (DistanceReturned /\ Len(dA) = Len(dB)) =>
        /\ FloatEq(dRet.value, DistanceTo(dB, dA).value)
        /\ FloatEq(DistanceTo(dA, dA).value, Fin(0))
        /\ (AllFinite(dA) /\ AllFinite(dB)) =>
               IsRootOf(dRet.value, SquaredDistance(dA, dB, 1))

\* C14 as amended: for all descriptor pairs a, b of equal length whose
\* components are finite numbers, DistanceTo is symmetric, a.DistanceTo(a)
\* is 0 and the value is the square root of the sum of the squared component
\* differences; a component that is NaN or infinite makes the distance of a
\* descriptor to itself NaN, which equals nothing.
C14_SymmetricZeroOnSelfFinite ==
    (DistanceReturned /\ Len(dA) = Len(dB)) =>
        /\ (AllFinite(dA) /\ AllFinite(dB)) =>
               /\ FloatEq(dRet.value, DistanceTo(dB, dA).value)
               /\ FloatEq(DistanceTo(dA, dA).value, Fin(0))
               /\ IsRootOf(dRet.value, SquaredDistance(dA, dB, 1))
        /\ ~AllFinite(dA) => DistanceTo(dA, dA).value = NaN

\* the distance of [0, 0, 0] to [3, 4, 0] is 5
C14_Witness ==
    /\ DistanceReturned
    /\ dA = <<Fin(0), Fin(0), Fin(0)>>
    /\ dB = <<Fin(3000), Fin(4000), Fin(0)>>
    /\ dRet = [value |-> Fin(5000), err |-> NoDistErr]

\* C15: DistanceTo returns an error if and only if the two descriptors have
\* different lengths: unequal lengths always give the dimension-mismatch
\* error, which names the two lengths, with distance 0 and nothing computed
\* over a truncated or padded vector; equal lengths never give an error.
C15_ErrorIffLengthsDiffer ==
    DistanceReturned =>
        IF Len(dA) # Len(dB)
        THEN dRet = [value |-> Fin(0), err |-> DimensionsErr(dA, dB)]
        ELSE dRet.err = NoDistErr

\* a descriptor shorter than the argument was refused
C15_Witness ==
    /\ DistanceReturned
    /\ Len(dA) = 2 /\ Len(dB) = 3
    /\ dRet.err = [kind |-> "dimensions", a |-> 2, b |-> 3]

----------------------------------------------------------------------------
(* Claims about inspectFolder *)

\* the labels of the file were obtained, from the cache or the classifier
Obtained(e) == e.what \in {"loaded from cache", "classified"}
Times(label, preds) == Len(SelectSeq(preds, LAMBDA l : l = label))

\* the files whose labels hold label, in the order of the folder, each as
\* many times as its labels hold it
RECURSIVE FilesUnder(_, _)
FilesUnder(label, i) ==
    IF i > Len(fLog) THEN <<>>
    ELSE [k \in 1..Times(label, fLog[i].preds) |-> fLog[i].file] \o FilesUnder(label, i + 1)

\* inspectFolder returned after filepath.Glob succeeded
FolderInspected == fPc = "done" /\ fIdx >= 1

\* C20: inspectFolder logs and continues per file: a decode failure, a
\* failure of the cache lookup or of the computation, or a failure of the
\* classifier on one file never aborts the batch, and every file whose labels
\* were obtained (from the cache or the classifier) is listed in the index
\* returned under each of its labels, whatever failed on other files.
C20_LogAndContinue ==
    FolderInspected =>
        /\ fRet.err = "nil"
        /\ Len(fLog) = Len(fFiles)
        /\ \A i \in 1..Len(fLog) :
              /\ fLog[i].file = fFiles[i]
              /\ Obtained(fLog[i]) =>
                    \A k \in 1..Len(fLog[i].preds) :
                        /\ fLog[i].preds[k] \in DOMAIN fRet.objects
                        /\ fLog[i].file \in Range(fRet.objects[fLog[i].preds[k]])
        /\ \A label \in DOMAIN fRet.objects :
              fRet.objects[label] = FilesUnder(label, 1)

\* the classifier failed on the first file and the second file is in the
\* index returned
C20_Witness ==
    /\ FolderInspected
    /\ Len(fLog) = 2
    /\ fLog[1].what = "error executing inception"
    /\ Obtained(fLog[2])
    /\ "cat" \in DOMAIN fRet.objects
    /\ fRet.objects["cat"] = <<fFiles[2]>>

====
